---- MODULE Spec2Model ----
(***************************************************************************)
(* Model of pkg/media/oggreader/oggreader.go: an Ogg page reader over an   *)
(* io.ReadSeeker.  A source is a byte sequence with a cursor; NewWith,     *)
(* ParseNextPage and ResetReader are the three operations of the package.  *)
(***************************************************************************)
EXTENDS Integers, Sequences, FiniteSets, TLC

VARIABLES
    srcs,                   \* the io.ReadSeekers of the caller, in order of creation; <<>> = NewWith is given nil
    stream,                 \* OggReader.stream: index into srcs, 0 while there is no reader
    bytesReadSuccesfully,   \* OggReader.bytesReadSuccesfully
    header,                 \* the *OggHeader returned by NewWith: <<>> (nil) or <<h>>
    pc,                     \* "start", "open" (reader returned), "failed" (error returned), "panic"
    calls,                  \* number of ParseNextPage calls the caller made on the reader
    last                    \* what the last operation returned and did

vars == <<srcs, stream, bytesReadSuccesfully, header, pc, calls, last>>

-----------------------------------------------------------------------------
(* Bounds of the model *)

MaxComments == 2     \* comment pages in an input
MaxAudio == 2        \* audio pages in an input
MaxCut == 3          \* bytes missing at the end of an input
MaxResets == 1       \* ResetReader calls
MaxCalls == 4        \* ParseNextPage calls by the caller
LongCut == 250       \* a long truncation of an input

-----------------------------------------------------------------------------
(* Constants of the package *)

pageHeaderTypeBeginningOfStream == 2
pageHeaderLen == 28
idPageSignature == <<79, 112, 117, 115, 72, 101, 97, 100>>         \* "OpusHead"
commentPageSignature == <<79, 112, 117, 115, 84, 97, 103, 115>>    \* "OpusTags"
pageHeaderSignature == <<79, 103, 103, 83>>                        \* "OggS"

NoErr == "nil"
ErrEOF == "EOF"                                   \* io.EOF
ErrHeaderLen == "header len mismatch"
ErrNilStream == "stream is nil"
ErrBadSignature == "bad header signature"
ErrWrongHeader == "wrong header, expected beginning of stream"
ErrBadHeaderSize == "bad header size"
ErrWrongSignature == "wrong signature"
ErrSeek == "negative position"                    \* Seek before the start of the source

-----------------------------------------------------------------------------
(* Byte helpers *)

Min(a, b) == IF a < b THEN a ELSE b

Zeros(n) == [i \in 1..n |-> 0]

\* An unsigned integer of 16, 32 or 64 bits is written as its base-256
\* numeral, least significant digit first and without leading zero digits
\* (<<>> is 0): a uint64 does not fit the integers of the model checker.
RECURSIVE Numeral(_)
Numeral(n) == IF n = 0 THEN <<>> ELSE <<n % 256>> \o Numeral(n \div 256)

\* binary.LittleEndian.Uint16/Uint32/Uint64 of a byte slice
RECURSIVE LittleEndian(_)
LittleEndian(b) ==
    IF b = <<>> THEN <<>>
    ELSE IF b[Len(b)] = 0 THEN LittleEndian(SubSeq(b, 1, Len(b) - 1))
    ELSE b

\* Contains that looks for sub at the start of s only
ContainsAtStart(s, sub) ==
    Len(s) >= Len(sub) /\ SubSeq(s, 1, Len(sub)) = sub

\* bytes.Contains(s, sub)
Contains(s, sub) ==
    \E i \in 0..(Len(s) - Len(sub)) : SubSeq(s, i + 1, i + Len(sub)) = sub

-----------------------------------------------------------------------------
(* The source: Read and Seek of an in-memory or file io.ReadSeeker *)

\* s.Read(buf) with len(buf) = n > 0: at the end of the data 0 bytes and
\* io.EOF; otherwise the min(n, remaining) next bytes and no error.  buf is
\* a fresh zeroed slice, so the bytes not read stay 0.
Read(s, n) ==
    LET avail == Len(s.data) - s.pos
        k == Min(n, avail)
    IN  IF avail <= 0
        THEN [n |-> 0, err |-> ErrEOF, buf |-> Zeros(n), pos |-> s.pos]
        ELSE [n |-> k, err |-> NoErr,
              buf |-> SubSeq(s.data, s.pos + 1, s.pos + k) \o Zeros(n - k),
              pos |-> s.pos + k]

\* s.Seek(offset, io.SeekCurrent)
Seek(s, offset) ==
    IF s.pos + offset < 0
    THEN [err |-> ErrSeek, pos |-> s.pos]
    ELSE [err |-> NoErr, pos |-> s.pos + offset]

-----------------------------------------------------------------------------
(* ParseNextPage *)

\* pageHeaderOf that sets the checksum from the header bytes as well
pageHeaderWithChecksum(h) ==
    [sig |-> SubSeq(h, 1, 4),
     version |-> h[5],
     headerType |-> h[6],
     granulePos |-> LittleEndian(SubSeq(h, 7, 14)),
     serial |-> LittleEndian(SubSeq(h, 15, 18)),
     index |-> LittleEndian(SubSeq(h, 19, 22)),
     segmentsCount |-> h[27],
     checksum |-> LittleEndian(SubSeq(h, 23, 26))]

\* The fields of the OggPageHeader decoded from the 28 header bytes h; the
\* checksum is not set here
pageHeaderOf(h) ==
    [sig |-> SubSeq(h, 1, 4),
     version |-> h[5],
     headerType |-> h[6],
     granulePos |-> LittleEndian(SubSeq(h, 7, 14)),
     serial |-> LittleEndian(SubSeq(h, 15, 18)),
     index |-> LittleEndian(SubSeq(h, 19, 22)),
     segmentsCount |-> h[27],
     checksum |-> Numeral(0)]

\* A result of ParseNextPage: the payload (<<>> = nil, <<p>> = p), the page
\* header (<<>> = nil), the error, the cursor afterwards and the number of
\* Read calls made.
pageError(err, pos, io) ==
    [payload |-> <<>>, pageHeader |-> <<>>, err |-> err, pos |-> pos, io |-> io]

\* The part of ParseNextPage after the Read of a payload of payloadSize > 0
\* bytes has returned r2: only r2.err is looked at, r2.n is dropped
withPayload(h, r2) ==
    IF r2.err # NoErr
    THEN pageError(r2.err, r2.pos, 2)
    ELSE [payload |-> <<r2.buf>>,
          pageHeader |-> <<[pageHeaderOf(h) EXCEPT !.checksum = LittleEndian(SubSeq(h, 23, 26))]>>,
          err |-> NoErr, pos |-> r2.pos, io |-> 2]

\* withHeader without the comparison of the byte count with the header length
withHeaderAnyLen(s, r1) ==
    IF r1.err # NoErr THEN pageError(r1.err, r1.pos, 1)
    ELSE IF r1.buf[28] > 0
    THEN withPayload(r1.buf, Read([s EXCEPT !.pos = r1.pos], r1.buf[28]))
    ELSE [payload |-> << <<>> >>, pageHeader |-> <<pageHeaderOf(r1.buf)>>,
          err |-> NoErr, pos |-> r1.pos, io |-> 1]

\* The part of ParseNextPage after the Read of the header has returned r1
withHeader(s, r1) ==
    IF r1.err # NoErr THEN pageError(r1.err, r1.pos, 1)
    ELSE IF r1.n < Len(r1.buf) THEN pageError(ErrHeaderLen, r1.pos, 1)
    ELSE IF r1.buf[28] > 0
    THEN withPayload(r1.buf, Read([s EXCEPT !.pos = r1.pos], r1.buf[28]))
    ELSE [payload |-> << <<>> >>, pageHeader |-> <<pageHeaderOf(r1.buf)>>,
          err |-> NoErr, pos |-> r1.pos, io |-> 1]

\* o.ParseNextPage() with o.stream = s
ParseNextPage(s) == withHeader(s, Read(s, pageHeaderLen))

-----------------------------------------------------------------------------
(* readHeaders *)

\* The loop that reads and skips the comment header pages, from cursor
\* s.pos: the error it returns, the cursor afterwards, the Read and Seek
\* calls made, the number of pages skipped, and the page it stopped at as
\* ParseNextPage returned it (with pos the cursor where that call started).
RECURSIVE skipCommentPages(_)

\* The rewind over the page r that ParseNextPage read at cursor from
rewind(from, r, sk) ==
    [err |-> sk.err, pos |-> sk.pos, io |-> r.io + 1,
     seen |-> <<[r EXCEPT !.pos = from]>>, skipped |-> 0]

\* One iteration of the loop, after ParseNextPage has returned r
skipStep(s, r) ==
    IF r.err # NoErr
    THEN [err |-> r.err, pos |-> r.pos, io |-> r.io, seen |-> <<>>, skipped |-> 0]
    ELSE IF ~Contains(r.payload[1], commentPageSignature)
    THEN rewind(s.pos, r, Seek([s EXCEPT !.pos = r.pos],
                               -1 * (pageHeaderLen + Len(r.payload[1]))))
    ELSE [skipCommentPages([s EXCEPT !.pos = r.pos])
             EXCEPT !.io = @ + r.io, !.skipped = @ + 1]

skipCommentPages(s) == skipStep(s, ParseNextPage(s))

\* decodeHeader with SampleRate read from offset 11 instead of 12
decodeHeaderShifted(payload) ==
    [Version |-> payload[9],
     Channels |-> payload[10],
     PreSkip |-> LittleEndian(SubSeq(payload, 11, 12)),
     SampleRate |-> LittleEndian(SubSeq(payload, 12, 15)),
     OutputGain |-> LittleEndian(SubSeq(payload, 17, 18)),
     ChannelMap |-> payload[19]]

\* Decoding of the OggHeader from the identification payload
decodeHeader(payload) ==
    [Version |-> payload[9],
     Channels |-> payload[10],
     PreSkip |-> LittleEndian(SubSeq(payload, 11, 12)),
     SampleRate |-> LittleEndian(SubSeq(payload, 13, 16)),
     OutputGain |-> LittleEndian(SubSeq(payload, 17, 18)),
     ChannelMap |-> payload[19]]

\* signatureOK without the comparison: every capture pattern is accepted
signatureAny(sig) == TRUE

\* The check of the first page's capture pattern
signatureOK(sig) == sig = pageHeaderSignature

\* The check of the first page's header type
headerTypeOK(headerType) == headerType = pageHeaderTypeBeginningOfStream

\* readHeaders returns error e right after the first page r
headersError(r, e) ==
    [header |-> <<>>, err |-> e, panic |-> FALSE, pos |-> r.pos,
     io |-> r.io, seen |-> <<>>, skipped |-> 0]

\* readHeaders panics after the first page r: a slice or index expression
\* on the payload is out of range
headersPanic(r) ==
    [header |-> <<>>, err |-> NoErr, panic |-> TRUE, pos |-> r.pos,
     io |-> r.io, seen |-> <<>>, skipped |-> 0]

\* readHeaders returns after the loop has ended as loop
headersDone(r, h, loop) ==
    [header |-> IF loop.err = NoErr THEN <<h>> ELSE <<>>,
     err |-> loop.err, panic |-> FALSE, pos |-> loop.pos,
     io |-> r.io + loop.io, seen |-> loop.seen, skipped |-> loop.skipped]

\* The part of readHeaders after ParseNextPage has returned r for the first
\* page: payload[:8] needs a payload of 8 bytes, payload[18] one of 19
checkFirstPage(s, r) ==
    IF r.err # NoErr THEN headersError(r, r.err)
    ELSE IF ~signatureOK(r.pageHeader[1].sig) THEN headersError(r, ErrBadSignature)
    ELSE IF ~headerTypeOK(r.pageHeader[1].headerType) THEN headersError(r, ErrWrongHeader)
    ELSE IF Len(r.payload[1]) = 0 THEN headersError(r, ErrBadHeaderSize)
    ELSE IF Len(r.payload[1]) < 8 THEN headersPanic(r)
    ELSE IF SubSeq(r.payload[1], 1, 8) # idPageSignature THEN headersError(r, ErrWrongSignature)
    ELSE IF Len(r.payload[1]) < 19 THEN headersPanic(r)
    ELSE headersDone(r, decodeHeader(r.payload[1]),
                     skipCommentPages([s EXCEPT !.pos = r.pos]))

\* o.readHeaders() with o.stream = s
readHeaders(s) == checkFirstPage(s, ParseNextPage(s))

-----------------------------------------------------------------------------
(* The inputs: byte sources built from pages *)

\* The bytes of one page: the 28-byte header of the package's layout (sig,
\* version, headerType, granulePos, serial, index, checksum, segmentsCount,
\* payload size) and the payload.  idx numbers the page in its stream.
MkPage(sig, headerType, idx, payload) ==
    sig \o <<0, headerType>>
        \o <<idx, 1, 0, 0, 0, 0, 0, 0>>      \* granulePos
        \o <<5, 6, 7, 8>>                    \* serial
        \o <<idx, 0, 0, 0>>                  \* index
        \o <<17, 34, 51, 68>>                \* checksum
        \o <<1, Len(payload)>> \o payload

\* An identification payload with the given field values, little-endian
EncodeHeader(f) ==
    idPageSignature
        \o <<f.Version, f.Channels>>
        \o <<f.PreSkip % 256, f.PreSkip \div 256>>
        \o <<f.SampleRate % 256, (f.SampleRate \div 256) % 256,
             (f.SampleRate \div 65536) % 256, f.SampleRate \div 16777216>>
        \o <<f.OutputGain % 256, f.OutputGain \div 256>>
        \o <<f.ChannelMap>>

HeaderFields ==
    { [Version |-> 1, Channels |-> 2, PreSkip |-> 312, SampleRate |-> 48000,
       OutputGain |-> 0, ChannelMap |-> 0],
      [Version |-> 3, Channels |-> 7, PreSkip |-> 65535, SampleRate |-> 16909060,
       OutputGain |-> 513, ChannelMap |-> 255] }

BadSignature == <<79, 103, 103, 88>>         \* "OggX"

\* Identification payloads that readHeaders decodes
ValidIdPayloads ==
    { EncodeHeader(f) : f \in HeaderFields }
    \cup { EncodeHeader(CHOOSE f \in HeaderFields : f.Version = 1) \o <<2, 0, 0, 1>> }   \* with a channel mapping table

\* Identification payloads that are empty, too short or without "OpusHead" at the start
OtherIdPayloads ==
    { <<>>,
      SubSeq(idPageSignature, 1, 4),                   \* 4 bytes, a prefix of "OpusHead"
      <<78, 111, 116, 79, 112, 117, 115, 33>>,         \* "NotOpus!"
      idPageSignature,                                 \* "OpusHead" and nothing else
      idPageSignature \o <<1, 2, 0, 0, 128, 187>>,     \* "OpusHead" and 6 more bytes
      <<120>> \o idPageSignature \o Zeros(10) }        \* 19 bytes, "OpusHead" not at the start

ValidFirstPages ==
    { MkPage(pageHeaderSignature, pageHeaderTypeBeginningOfStream, 0, p) : p \in ValidIdPayloads }

OtherFirstPages ==
    { MkPage(pageHeaderSignature, pageHeaderTypeBeginningOfStream, 0, p) : p \in OtherIdPayloads }
    \cup { MkPage(BadSignature, pageHeaderTypeBeginningOfStream, 0, p) :
             p \in { <<>>, <<1, 2, 3>> } \cup { EncodeHeader(f) : f \in HeaderFields } }
    \cup { MkPage(pageHeaderSignature, t, 0, EncodeHeader(f)) :
             t \in {0, 3, 4, 6}, f \in HeaderFields }

CommentPayloads ==
    { commentPageSignature \o <<1, 0, 0, 0, 97>>,
      <<120, 121>> \o commentPageSignature \o <<122>> }

AudioPayloads ==
    { <<>>, <<1, 2, 3>>, [i \in 1..255 |-> i % 256] }

SeqsUpTo(S, n) == UNION { [1..k -> S] : k \in 0..n }

\* The pages with the payloads ps after a first page, numbered from idx
RECURSIVE PagesFrom(_, _)
PagesFrom(ps, idx) ==
    IF ps = <<>> THEN <<>>
    ELSE MkPage(pageHeaderSignature, 0, idx, Head(ps)) \o PagesFrom(Tail(ps), idx + 1)

\* data without its last c bytes
Cut(data, c) == SubSeq(data, 1, IF Len(data) > c THEN Len(data) - c ELSE 0)

Cuts == 0..MaxCut \cup {LongCut}

\* The sources given to NewWith: a first page that readHeaders accepts,
\* followed by comment pages and audio pages, and a first page that it does
\* not accept, alone or followed by a comment page and an audio page; both
\* whole and cut short.
Inputs ==
    { Cut(first \o PagesFrom(cs \o as, 1), c) :
        first \in ValidFirstPages,
        cs \in SeqsUpTo(CommentPayloads, MaxComments),
        as \in SeqsUpTo(AudioPayloads, MaxAudio),
        c \in Cuts }
    \cup
    { Cut(first \o PagesFrom(ps, 1), c) :
        first \in OtherFirstPages,
        ps \in { <<>>, << commentPageSignature, <<1, 2, 3>> >> },
        c \in Cuts }

\* The sources a factory passed to ResetReader can return
ResetData ==
    { <<>>,
      PagesFrom(<< <<9, 9>> >>, 7),
      PagesFrom(<< <<>>, <<8, 8, 8>> >>, 7) }

\* A factory reset(bytesRead): it opens data d and seeks to the offset it is given
Factory(d, bytesRead) == [data |-> d, pos |-> Min(bytesRead, Len(d))]

-----------------------------------------------------------------------------
(* The state machine *)

NoResult ==
    [op |-> "none", err |-> NoErr, payload |-> <<>>, pageHeader |-> <<>>,
     io |-> 0, seen |-> <<>>, skipped |-> 0, factoryCalls |-> 0, arg |-> 0]

Init ==
    /\ srcs \in {<<>>} \cup { <<[data |-> d, pos |-> 0]>> : d \in Inputs }
    /\ stream = 0
    /\ bytesReadSuccesfully = 0
    /\ header = <<>>
    /\ pc = "start"
    /\ calls = 0
    /\ last = NoResult

\* NewWith returns what readHeaders returned as r
newWithReturn(r) ==
    [pc |-> IF r.panic THEN "panic" ELSE IF r.err # NoErr THEN "failed" ELSE "open",
     header |-> r.header, err |-> r.err, pos |-> r.pos,
     io |-> r.io, seen |-> r.seen, skipped |-> r.skipped]

\* newWith without the nil check: the Read on the nil source panics
newWithUnchecked(in) ==
    IF in = <<>>
    THEN [pc |-> "panic", header |-> <<>>, err |-> NoErr, pos |-> 0,
          io |-> 1, seen |-> <<>>, skipped |-> 0]
    ELSE newWithReturn(readHeaders(in[1]))

\* What NewWith(in) returns and does; in is <<>> for nil and <<s>> for source s
newWith(in) ==
    IF in = <<>>
    THEN [pc |-> "failed", header |-> <<>>, err |-> ErrNilStream, pos |-> 0,
          io |-> 0, seen |-> <<>>, skipped |-> 0]
    ELSE newWithReturn(readHeaders(in[1]))

\* The state after NewWith has returned r
NewWithDone(r) ==
    /\ srcs' = IF srcs = <<>> THEN srcs ELSE [srcs EXCEPT ![1].pos = r.pos]
    /\ pc' = r.pc
    /\ stream' = IF r.pc = "open" THEN 1 ELSE 0
    /\ header' = r.header
    /\ last' = [NoResult EXCEPT !.op = "NewWith", !.err = r.err, !.io = r.io,
                                !.seen = r.seen, !.skipped = r.skipped]

\* NewWith(in) with in = srcs[1], or nil when there is no source
NewWith ==
    /\ pc = "start"
    /\ NewWithDone(newWith(srcs))
    /\ UNCHANGED <<bytesReadSuccesfully, calls>>

\* The state after a ParseNextPage call of the caller has returned r
ParseNextPageDone(r) ==
    /\ srcs' = [srcs EXCEPT ![stream].pos = r.pos]
    /\ last' = [NoResult EXCEPT !.op = "ParseNextPage", !.err = r.err, !.io = r.io,
                                !.payload = r.payload, !.pageHeader = r.pageHeader]

\* ParseNextPageCall that adds the bytes it read to the counter of the reader
ParseNextPageCounting ==
    /\ pc = "open"
    /\ calls < MaxCalls
    /\ ParseNextPageDone(ParseNextPage(srcs[stream]))
    /\ calls' = calls + 1
    /\ bytesReadSuccesfully' =
           bytesReadSuccesfully + (ParseNextPage(srcs[stream]).pos - srcs[stream].pos)
    /\ UNCHANGED <<stream, header, pc>>

\* o.ParseNextPage() called by the owner of the reader
ParseNextPageCall ==
    /\ pc = "open"
    /\ calls < MaxCalls
    /\ ParseNextPageDone(ParseNextPage(srcs[stream]))
    /\ calls' = calls + 1
    /\ UNCHANGED <<stream, bytesReadSuccesfully, header, pc>>

\* o.ResetReader(reset) with a factory that opens d
ResetReader ==
    /\ pc = "open"
    /\ Len(srcs) <= MaxResets
    /\ \E d \in ResetData :
         /\ srcs' = Append(srcs, Factory(d, bytesReadSuccesfully))
         /\ stream' = Len(srcs) + 1
         /\ last' = [NoResult EXCEPT !.op = "ResetReader", !.factoryCalls = 1,
                                     !.arg = bytesReadSuccesfully]
    /\ UNCHANGED <<bytesReadSuccesfully, header, pc, calls>>

Next == NewWith \/ ParseNextPageCall \/ ResetReader

Spec == Init /\ [][Next]_vars

TypeOK ==
    /\ pc \in {"start", "loop", "open", "failed", "panic"}
    /\ stream \in 0..Len(srcs)
    /\ \A i \in 1..Len(srcs) : srcs[i].pos \in 0..Len(srcs[i].data)
    /\ Len(header) <= 1

-----------------------------------------------------------------------------
(* The page structure of a source, read off its bytes *)

\* A page header of 28 bytes starts at offset off of data
HeaderAt(data, off) == Len(data) >= off + pageHeaderLen

\* The payload size that the page header at offset off declares
DeclaredSize(data, off) == data[off + pageHeaderLen]

\* A page starts at offset off and data holds all of it
WholePageAt(data, off) ==
    HeaderAt(data, off) /\ Len(data) >= off + pageHeaderLen + DeclaredSize(data, off)

PayloadAt(data, off) ==
    SubSeq(data, off + pageHeaderLen + 1, off + pageHeaderLen + DeclaredSize(data, off))

\* The offsets of the whole pages of data from offset off on, in order
RECURSIVE PageOffsets(_, _)
PageOffsets(data, off) ==
    IF WholePageAt(data, off)
    THEN <<off>> \o PageOffsets(data, off + pageHeaderLen + DeclaredSize(data, off))
    ELSE <<>>

\* The offsets where a page header starts, and the end of the source
RECURSIVE Boundaries(_, _)
Boundaries(data, off) ==
    IF off >= Len(data) THEN {Len(data)}
    ELSE IF ~HeaderAt(data, off) THEN {off, Len(data)}
    ELSE {off} \cup Boundaries(data, off + pageHeaderLen + DeclaredSize(data, off))

\* data is a sequence of whole pages and nothing else
WellFormed(data) ==
    LET offs == PageOffsets(data, 0)
        lastOff == offs[Len(offs)]
    IN  IF offs = <<>> THEN data = <<>>
        ELSE lastOff + pageHeaderLen + DeclaredSize(data, lastOff) = Len(data)

StartsWith(p, prefix) == Len(p) >= Len(prefix) /\ SubSeq(p, 1, Len(prefix)) = prefix

FormatErrors == {ErrBadSignature, ErrWrongHeader, ErrBadHeaderSize, ErrWrongSignature}

\* The source NewWith was given
In == srcs[1]

-----------------------------------------------------------------------------
(* C1 *)

\* data = one identification page (signature "OggS", beginning-of-stream
\* header type, payload starting with "OpusHead"), one comment page with
\* "OpusTags" and then only pages without "OpusTags"
C1_Stream(data) ==
    LET offs == PageOffsets(data, 0)
    IN  /\ WellFormed(data)
        /\ Len(offs) >= 2
        /\ SubSeq(data, 1, 4) = pageHeaderSignature
        /\ data[6] = pageHeaderTypeBeginningOfStream
        /\ StartsWith(PayloadAt(data, 0), idPageSignature)
        /\ Contains(PayloadAt(data, offs[2]), commentPageSignature)
        /\ \A i \in 3..Len(offs) : ~Contains(PayloadAt(data, offs[i]), commentPageSignature)

\* C1: on a source of one valid identification page, one comment page and
\* N >= 0 audio pages, NewWith succeeds, the i-th of the next N calls of
\* ParseNextPage succeeds and returns the payload of the i-th audio page,
\* and call N+1 fails.
C1_Claim ==
    (srcs # <<>> /\ Len(srcs) = 1 /\ pc # "start" /\ C1_Stream(In.data)) =>
        LET offs == PageOffsets(In.data, 0)
            N == Len(offs) - 2
        IN  /\ pc = "open"
            /\ (last.op = "NewWith") => last.err = NoErr /\ header # <<>>
            /\ (last.op = "ParseNextPage" /\ calls <= N) =>
                   /\ last.err = NoErr
                   /\ last.payload = <<PayloadAt(In.data, offs[calls + 2])>>
            /\ (last.op = "ParseNextPage" /\ calls = N + 1) => last.err # NoErr

-----------------------------------------------------------------------------
(* C2 *)

\* The page at the cursor of s declares more payload than s holds after
\* the page's header
ShortPayload(s) ==
    /\ HeaderAt(s.data, s.pos)
    /\ DeclaredSize(s.data, s.pos) > Len(s.data) - (s.pos + pageHeaderLen)

\* C2: a ParseNextPage call on a page whose declared payload size is
\* larger than the bytes remaining after its header, some of them available
\* or none, returns an error and no page.
C2_Claim ==
    [][(ParseNextPageCall /\ ShortPayload(srcs[stream])) =>
          (last'.err # NoErr /\ last'.payload = <<>> /\ last'.pageHeader = <<>>)]_vars

-----------------------------------------------------------------------------
(* C3 *)

\* C3: when the header-skip loop of construction read a page without
\* "OpusTags", the cursor after NewWith is at the first byte of that page
\* and the first ParseNextPage returns the header and the payload that the
\* loop saw.
C3_Claim ==
    (pc = "open" /\ last.op = "NewWith" /\ last.seen # <<>>) =>
        LET seen == last.seen[1]
            first == ParseNextPage(In)
        IN  /\ In.pos = seen.pos
            /\ first.err = NoErr
            /\ first.pageHeader = seen.pageHeader
            /\ first.payload = seen.payload

-----------------------------------------------------------------------------
(* C4 *)

\* Bit 0x02 of a header type byte
BeginningOfStreamBit(headerType) == (headerType \div 2) % 2 = 1

\* C4: a first page with signature "OggS" is rejected by the header-type
\* check exactly when bit 0x02 of its headerType is clear.
C4_Claim ==
    (srcs # <<>> /\ last.op = "NewWith") =>
        LET first == ParseNextPage([In EXCEPT !.pos = 0])
        IN  (first.err = NoErr /\ first.pageHeader[1].sig = pageHeaderSignature) =>
                (last.err = ErrWrongHeader
                    <=> ~BeginningOfStreamBit(first.pageHeader[1].headerType))

-----------------------------------------------------------------------------
(* C5 *)

\* C5: a first page with signature "OggS", the beginning-of-stream header
\* type and a non-empty payload that does not start with "OpusHead" makes
\* NewWith return a format error, no reader and no header; it does not crash.
C5_Claim ==
    (srcs # <<>> /\ last.op = "NewWith") =>
        LET first == ParseNextPage([In EXCEPT !.pos = 0])
        IN  (/\ first.err = NoErr
             /\ first.pageHeader[1].sig = pageHeaderSignature
             /\ first.pageHeader[1].headerType = pageHeaderTypeBeginningOfStream
             /\ Len(first.payload[1]) >= 1
             /\ ~StartsWith(first.payload[1], idPageSignature)) =>
                /\ pc = "failed"
                /\ last.err \in FormatErrors
                /\ stream = 0
                /\ header = <<>>

-----------------------------------------------------------------------------
(* C6 *)

\* The bytes the reader has consumed from the sources it has read so far
RECURSIVE Consumed(_)
Consumed(ss) == IF ss = <<>> THEN 0 ELSE Head(ss).pos + Consumed(Tail(ss))

\* C6: ResetReader invokes the factory once, with the cumulative number of
\* bytes the reader has consumed; the source the factory returned is the
\* active one, and later ParseNextPage calls read from it and never from a
\* replaced source.
C6_Claim ==
    /\ [](last.op = "ResetReader" =>
            /\ last.factoryCalls = 1
            /\ last.arg = Consumed(SubSeq(srcs, 1, Len(srcs) - 1))
            /\ stream = Len(srcs))
    /\ [][(ParseNextPageCall /\ Len(srcs) > 1) =>
            (/\ stream = Len(srcs)
             /\ \A i \in 1..(Len(srcs) - 1) : srcs'[i] = srcs[i])]_vars

-----------------------------------------------------------------------------
(* C7 *)

\* The source holds the 28 header bytes of a first page whose signature is
\* not "OggS"
BadFirstSignature(data) ==
    HeaderAt(data, 0) /\ SubSeq(data, 1, 4) # pageHeaderSignature

-----------------------------------------------------------------------------
(* C8 *)

\* C8: for an identification payload of at least 19 bytes starting with
\* "OpusHead", the header of a successful NewWith has Version = byte 8,
\* Channels = byte 9, PreSkip = bytes 10-11, SampleRate = bytes 12-15,
\* OutputGain = bytes 16-17 (little-endian) and ChannelMap = byte 18, so the
\* field values encoded at those offsets come back.
C8_Theorem ==
    (srcs # <<>> /\ header # <<>>) =>
        LET p == PayloadAt(In.data, 0)
            h == header[1]
        IN  (Len(p) >= 19 /\ StartsWith(p, idPageSignature)) =>
              /\ h.Version = p[9]
              /\ h.Channels = p[10]
              /\ h.PreSkip = Numeral(p[11] + 256 * p[12])
              /\ h.SampleRate = Numeral(p[13] + 256 * p[14] + 65536 * p[15] + 16777216 * p[16])
              /\ h.OutputGain = Numeral(p[17] + 256 * p[18])
              /\ h.ChannelMap = p[19]
              /\ \A f \in HeaderFields :
                    SubSeq(p, 1, 19) = EncodeHeader(f) =>
                        h = [Version |-> f.Version, Channels |-> f.Channels,
                             PreSkip |-> Numeral(f.PreSkip),
                             SampleRate |-> Numeral(f.SampleRate),
                             OutputGain |-> Numeral(f.OutputGain),
                             ChannelMap |-> f.ChannelMap]

\* NewWith has returned a header whose fields all differ from zero
C8_Witness ==
    /\ pc = "open"
    /\ header # <<>>
    /\ header[1].SampleRate = Numeral(16909060)
    /\ header[1].PreSkip = Numeral(65535)
    /\ header[1].OutputGain = Numeral(513)
    /\ header[1].Version = 3
    /\ header[1].Channels = 7
    /\ header[1].ChannelMap = 255

-----------------------------------------------------------------------------
(* C9 *)

\* C9: NewWith with a nil source returns an error, no reader and no header,
\* and makes no Read or Seek call.
C9_Theorem ==
    (srcs = <<>> /\ pc # "start") =>
        /\ pc = "failed"
        /\ last.op = "NewWith"
        /\ last.err = ErrNilStream
        /\ stream = 0
        /\ header = <<>>
        /\ last.io = 0

\* NewWith has returned on a nil source
C9_Witness == srcs = <<>> /\ last.op = "NewWith" /\ last.err # NoErr

-----------------------------------------------------------------------------
(* C10 *)

\* C10: a successful ParseNextPage advances the cursor by 28 plus the length
\* of the payload it returns, and after a successful NewWith or
\* ParseNextPage the cursor is at a page boundary of the source.
C10_Claim ==
    /\ [][(ParseNextPageCall /\ last'.err = NoErr) =>
            srcs'[stream].pos = srcs[stream].pos + pageHeaderLen + Len(last'.payload[1])]_vars
    /\ []((pc = "open" /\ last.op \in {"NewWith", "ParseNextPage"} /\ last.err = NoErr) =>
            srcs[stream].pos \in Boundaries(srcs[stream].data, 0))

-----------------------------------------------------------------------------
(* C11 *)

\* C11: NewWith, ParseNextPage and ResetReader never change the reader's
\* counter of bytes consumed: it is 0 in every state, and every ResetReader
\* passes 0 to its factory, however many pages have been read.
C11_Theorem ==
    /\ bytesReadSuccesfully = 0
    /\ last.op = "ResetReader" => last.arg = 0

\* ResetReader has run after two pages were read from the first source
C11_Witness ==
    /\ last.op = "ResetReader"
    /\ calls >= 2
    /\ srcs[1].pos > 2 * pageHeaderLen
    /\ last.factoryCalls = 1

-----------------------------------------------------------------------------
(* C12 *)

\* The bytes "OpusTags" stand at some offset of payload p
HasTags(p) ==
    \E i \in 1..(Len(p) - 7) : \A j \in 1..8 : p[i + j - 1] = commentPageSignature[j]

\* data starts with a valid identification page, K whole pages that each
\* have "OpusTags" in the payload, and a whole page that has not
C12_Stream(data, K) ==
    LET offs == PageOffsets(data, 0)
    IN  /\ Len(offs) >= K + 2
        /\ SubSeq(data, 1, 4) = pageHeaderSignature
        /\ data[6] = pageHeaderTypeBeginningOfStream
        /\ Len(PayloadAt(data, 0)) >= 19
        /\ StartsWith(PayloadAt(data, 0), idPageSignature)
        /\ \A i \in 2..(K + 1) : HasTags(PayloadAt(data, offs[i]))
        /\ ~HasTags(PayloadAt(data, offs[K + 2]))

\* C12: on a source of a valid identification page, K >= 1 pages with
\* "OpusTags" at any offset of the payload and then a page without it,
\* NewWith succeeds, discards the K pages, and the first ParseNextPage
\* returns the page that follows the K-th of them.
C12_Theorem ==
    (srcs # <<>> /\ last.op = "NewWith") =>
        \A K \in 1..(Len(PageOffsets(In.data, 0)) - 2) :
            C12_Stream(In.data, K) =>
                LET off == PageOffsets(In.data, 0)[K + 2]
                    first == ParseNextPage(In)
                IN  /\ pc = "open"
                    /\ last.err = NoErr
                    /\ header # <<>>
                    /\ last.skipped = K
                    /\ In.pos = off
                    /\ first.err = NoErr
                    /\ first.payload = <<PayloadAt(In.data, off)>>
                    /\ first.pageHeader[1].index = Numeral(In.data[off + 19])
                    /\ first.pos = off + pageHeaderLen + DeclaredSize(In.data, off)

\* NewWith has skipped two comment pages, the second with "OpusTags" behind
\* other bytes, and stands before a page of 255 payload bytes
C12_Witness ==
    /\ srcs # <<>>
    /\ last.op = "NewWith"
    /\ C12_Stream(In.data, 2)
    /\ ~StartsWith(PayloadAt(In.data, PageOffsets(In.data, 0)[3]), commentPageSignature)
    /\ DeclaredSize(In.data, PageOffsets(In.data, 0)[4]) = 255
    /\ last.skipped = 2
    /\ pc = "open"

-----------------------------------------------------------------------------
(* C13 *)

\* The bytes of source s from its cursor to its end
Remaining(s) == Len(s.data) - s.pos

\* C13: ParseNextPage at the end of the source returns the end-of-data
\* error of the source, with 1..27 bytes remaining it returns the other
\* error "header len mismatch"; both times without payload and page header.
C13_Theorem ==
    [][ParseNextPageCall =>
          /\ Remaining(srcs[stream]) = 0 =>
                (last'.err = ErrEOF /\ last'.payload = <<>> /\ last'.pageHeader = <<>>)
          /\ Remaining(srcs[stream]) \in 1..(pageHeaderLen - 1) =>
                (last'.err = ErrHeaderLen /\ last'.payload = <<>> /\ last'.pageHeader = <<>>)
          /\ ErrEOF # ErrHeaderLen]_vars

\* A call has failed on the 25..27 bytes left of a page header
C13_Witness ==
    /\ last.op = "ParseNextPage"
    /\ last.err = ErrHeaderLen
    /\ srcs[stream].pos = Len(srcs[stream].data)
    /\ last.io = 1

-----------------------------------------------------------------------------
(* C14 *)

\* The value of the bytes b, least significant first, as a numeral: b up to
\* its last byte that is not 0
ValueOf(b) ==
    LET nz == { i \in 1..Len(b) : b[i] # 0 }
    IN  IF nz = {} THEN <<>>
        ELSE SubSeq(b, 1, CHOOSE i \in nz : \A j \in nz : j <= i)

\* The 28 bytes at the cursor of source s
HeaderBytes(s) == SubSeq(s.data, s.pos + 1, s.pos + pageHeaderLen)

\* C14: in the page header of a successful ParseNextPage the checksum is
\* the little-endian value of header bytes 22-25 when the payload-size byte
\* is not 0; when it is 0 the checksum is left 0, whatever those bytes are,
\* and the payload returned is empty.
C14_Theorem ==
    [][(ParseNextPageCall /\ last'.err = NoErr) =>
          LET h == HeaderBytes(srcs[stream])
          IN  IF h[28] # 0
              THEN last'.pageHeader[1].checksum = ValueOf(SubSeq(h, 23, 26))
              ELSE /\ last'.pageHeader[1].checksum = Numeral(0)
                   /\ last'.payload = << <<>> >>]_vars

\* A call has returned a page with an empty payload and no checksum from a
\* header whose checksum bytes are not 0, after a page with a checksum
C14_Witness ==
    /\ last.op = "ParseNextPage"
    /\ last.err = NoErr
    /\ calls >= 2
    /\ last.payload = << <<>> >>
    /\ last.pageHeader[1].checksum = Numeral(0)
    /\ SubSeq(srcs[stream].data, srcs[stream].pos - 5, srcs[stream].pos - 2) = <<17, 34, 51, 68>>

-----------------------------------------------------------------------------
(* C15 *)

\* C15: construction never accesses the identification payload beyond its
\* length: on a first page with signature "OggS", the beginning-of-stream
\* header type and a payload of 1..255 bytes NewWith returns an error or
\* decodes every field from inside the payload; it does not fail by an
\* access out of range.
C15_Claim ==
    (srcs # <<>> /\ last.op = "NewWith") =>
        LET first == ParseNextPage([In EXCEPT !.pos = 0])
        IN  (/\ first.err = NoErr
             /\ first.pageHeader[1].sig = pageHeaderSignature
             /\ first.pageHeader[1].headerType = pageHeaderTypeBeginningOfStream
             /\ Len(first.payload[1]) >= 1) =>
                /\ pc # "panic"
                /\ header # <<>> => Len(first.payload[1]) >= 19

-----------------------------------------------------------------------------
(* NewWith step by step: the first page, then one step for every iteration *)
(* of the loop over the comment pages; pc = "loop" between them            *)

\* An outcome of a step of NewWith
stepResult(to, h, err, pos, io, seen, skipped) ==
    [pc |-> to, header |-> h, err |-> err, pos |-> pos, io |-> io,
     seen |-> seen, skipped |-> skipped]

\* readHeaders up to the loop, after ParseNextPage has returned r for the
\* first page
firstPageStep(r) ==
    IF r.err # NoErr
    THEN stepResult("failed", <<>>, r.err, r.pos, r.io, <<>>, 0)
    ELSE IF ~signatureOK(r.pageHeader[1].sig)
    THEN stepResult("failed", <<>>, ErrBadSignature, r.pos, r.io, <<>>, 0)
    ELSE IF ~headerTypeOK(r.pageHeader[1].headerType)
    THEN stepResult("failed", <<>>, ErrWrongHeader, r.pos, r.io, <<>>, 0)
    ELSE IF Len(r.payload[1]) = 0
    THEN stepResult("failed", <<>>, ErrBadHeaderSize, r.pos, r.io, <<>>, 0)
    ELSE IF Len(r.payload[1]) < 8
    THEN stepResult("panic", <<>>, NoErr, r.pos, r.io, <<>>, 0)
    ELSE IF SubSeq(r.payload[1], 1, 8) # idPageSignature
    THEN stepResult("failed", <<>>, ErrWrongSignature, r.pos, r.io, <<>>, 0)
    ELSE IF Len(r.payload[1]) < 19
    THEN stepResult("panic", <<>>, NoErr, r.pos, r.io, <<>>, 0)
    ELSE stepResult("loop", <<decodeHeader(r.payload[1])>>, NoErr, r.pos, r.io, <<>>, 0)

\* NewWith(in) up to the loop of readHeaders, with r the first page of in
\* (not looked at when in is nil)
newWithBegin(in, r) ==
    IF in = <<>>
    THEN stepResult("failed", <<>>, ErrNilStream, 0, 0, <<>>, 0)
    ELSE firstPageStep(r)

\* The end of the loop with the rewind sk over page r, read at cursor from
loopExit(h, from, r, sk) ==
    stepResult(IF sk.err = NoErr THEN "open" ELSE "failed",
               IF sk.err = NoErr THEN h ELSE <<>>,
               sk.err, sk.pos, r.io + 1, <<[r EXCEPT !.pos = from]>>, 0)

\* loopStep that goes on with the loop when ParseNextPage returns an error
loopStepRetry(h, s, r) ==
    IF r.err # NoErr
    THEN stepResult("loop", h, NoErr, r.pos, 0, <<>>, 0)
    ELSE IF ~Contains(r.payload[1], commentPageSignature)
    THEN loopExit(h, s.pos, r, Seek([s EXCEPT !.pos = r.pos],
                                    -1 * (pageHeaderLen + Len(r.payload[1]))))
    ELSE stepResult("loop", h, NoErr, r.pos, r.io, <<>>, 1)

\* One iteration of the loop of readHeaders on source s, after ParseNextPage
\* has returned r; h is the header decoded from the first page
loopStep(h, s, r) ==
    IF r.err # NoErr
    THEN stepResult("failed", <<>>, r.err, r.pos, r.io, <<>>, 0)
    ELSE IF ~Contains(r.payload[1], commentPageSignature)
    THEN loopExit(h, s.pos, r, Seek([s EXCEPT !.pos = r.pos],
                                    -1 * (pageHeaderLen + Len(r.payload[1]))))
    ELSE stepResult("loop", h, NoErr, r.pos, r.io, <<>>, 1)

\* The state after a step of NewWith with outcome x
NewWithStepDone(x) ==
    /\ srcs' = IF srcs = <<>> THEN srcs ELSE [srcs EXCEPT ![1].pos = x.pos]
    /\ pc' = x.pc
    /\ stream' = IF x.pc = "open" THEN 1 ELSE 0
    /\ header' = x.header
    /\ last' = [last EXCEPT !.op = "NewWith", !.err = x.err, !.io = @ + x.io,
                            !.seen = x.seen, !.skipped = @ + x.skipped]
    /\ UNCHANGED <<bytesReadSuccesfully, calls>>

\* NewWith is called and runs up to the loop
NewWithBegin ==
    /\ pc = "start"
    /\ \E r \in {IF srcs = <<>> THEN NoResult ELSE ParseNextPage(srcs[1])} :
         \E x \in {newWithBegin(srcs, r)} : NewWithStepDone(x)

\* NewWith runs one iteration of the loop
LoopIteration ==
    /\ pc = "loop"
    /\ \E r \in {ParseNextPage(srcs[1])} :
         \E x \in {loopStep(header, srcs[1], r)} : NewWithStepDone(x)

\* The steps of one NewWith call
NextSteps == NewWithBegin \/ LoopIteration

\* NewWith is a synchronous call: once made it runs on until it returns
SpecSteps ==
    Init /\ [][NextSteps]_vars /\ WF_vars(NewWithBegin \/ LoopIteration)

-----------------------------------------------------------------------------
(* C16 *)

\* NewWith has returned or panicked
Returned == pc \in {"open", "failed", "panic"}

\* data is a valid identification page and then one or more whole pages
\* that all have "OpusTags" in the payload, and nothing else
EndsWithComments(data) ==
    LET offs == PageOffsets(data, 0)
    IN  /\ WellFormed(data)
        /\ Len(offs) >= 2
        /\ SubSeq(data, 1, 4) = pageHeaderSignature
        /\ data[6] = pageHeaderTypeBeginningOfStream
        /\ Len(PayloadAt(data, 0)) >= 19
        /\ StartsWith(PayloadAt(data, 0), idPageSignature)
        /\ \A i \in 2..Len(offs) : HasTags(PayloadAt(data, offs[i]))

\* What NewWith returns step by step is what newWith computes in one step
StepsAgree ==
    (Returned /\ last.op = "NewWith") =>
        LET r == newWith(IF srcs = <<>> THEN <<>> ELSE <<[In EXCEPT !.pos = 0]>>)
        IN  /\ pc = r.pc
            /\ header = r.header
            /\ last.err = r.err
            /\ last.io = r.io
            /\ last.seen = r.seen
            /\ last.skipped = r.skipped
            /\ srcs # <<>> => In.pos = r.pos

\* C16: NewWith terminates on every source: an iteration of the loop over
\* the comment pages returns an error, or leaves the loop at a page without
\* "OpusTags", or consumes at least 28 more bytes of the source; a source
\* that ends behind its last comment page makes NewWith return the
\* end-of-data error.
C16_Theorem ==
    /\ <>Returned
    /\ [][LoopIteration =>
            \/ pc' = "failed" /\ last'.err # NoErr
            \/ pc' = "open" /\ last'.seen # <<>>
                            /\ ~HasTags(last'.seen[1].payload[1])
            \/ pc' = "loop" /\ srcs'[1].pos >= srcs[1].pos + pageHeaderLen]_vars
    /\ []((srcs # <<>> /\ Returned /\ last.op = "NewWith" /\ EndsWithComments(In.data)) =>
            (pc = "failed" /\ last.err = ErrEOF /\ In.pos = Len(In.data)))
    /\ []StepsAgree

\* NewWith has returned the end-of-data error after two iterations that
\* skipped a comment page each and a third at the end of the source
C16_Witness ==
    /\ srcs # <<>>
    /\ last.op = "NewWith"
    /\ EndsWithComments(In.data)
    /\ last.skipped = 2
    /\ pc = "failed"
    /\ last.err = ErrEOF

====
